---------------------------- MODULE Spec2Model ----------------------------
(***************************************************************************)
(* A model of zoo/autoencoder: the Composable base class (models_c.py)     *)
(* and the AutoEncoder built on it (autoencoder_c.py).                     *)
(*                                                                         *)
(* A symbolic tensor is a record [shape, history]: its shape (H, W, C) and *)
(* the sequence of layers that produced it, in construction order.  A      *)
(* model is the layer sequence between an input and an output tensor, its  *)
(* weight list and its training configuration.                             *)
(***************************************************************************)
EXTENDS Integers, Sequences, FiniteSets, TLC

VARIABLES
    cls,        \* class-level attributes: Composable.init_weights/.reg/.relu, AutoEncoder.layers
    ae,         \* the AutoEncoder instance
    base,       \* a plain Composable instance
    extracted,  \* what the last extract() gave: nothing yet, an encoder model, or an error
    last,       \* the last call made on the instance or the helpers, with its arguments and result
    pc,         \* position of the stand-alone encoder/decoder call sequence
    kw,         \* keyword arguments of the stand-alone encoder/decoder calls
    x           \* the tensor the stand-alone calls thread through

vars == <<cls, ae, base, extracted, last, pc, kw, x>>

-----------------------------------------------------------------------------
(* Bounds of the model *)

\* longest explicit layers list a caller passes
MaxLen == 3

-----------------------------------------------------------------------------
(* Values *)

None == "None"
Unset == "Unset"          \* an attribute absent from an instance's __dict__

\* filter counts a caller puts in a layer spec
Filters == {3, 8}

\* kernel initializers: the class default, an instance-level one, a call-site one
HE_NORMAL == "he_normal"
InstInit == "zeros"
CallInit == "glorot_uniform"

\* kernel regularizers: the class default, an instance-level one, a call-site one
L2_DEFAULT == "l2(0.001)"
InstReg == "l1(0.01)"
CallReg == "l1_l2(0.01)"

\* ReLU clamp given to a Composable instance
InstRelu == "6.0"

Optimizers == {"adam", "sgd"}

RECURSIVE SeqsUpTo(_, _)
SeqsUpTo(S, n) ==
    IF n = 0 THEN {<<>>}
    ELSE LET shorter == SeqsUpTo(S, n - 1)
         IN  shorter \cup {Append(s, e) : s \in {t \in shorter : Len(t) = n - 1}, e \in S}

LayerSpec(n) == [n_filters |-> n]
LayerSpecs == {LayerSpec(n) : n \in Filters}

\* explicit layers arguments
LayerLists == SeqsUpTo(LayerSpecs, MaxLen)

\* the class attribute AutoEncoder.layers
DefaultLayers == <<LayerSpec(64), LayerSpec(32), LayerSpec(16)>>

\* the default input_shape of AutoEncoder.__init__
DefaultInputShape == <<32, 32, 3>>

\* the class attributes as the class bodies set them
ClassDefaults ==
    [init_weights |-> HE_NORMAL, reg |-> L2_DEFAULT, relu |-> None, layers |-> DefaultLayers]

RECURSIVE Pow2(_)
Pow2(n) == IF n = 0 THEN 1 ELSE 2 * Pow2(n - 1)

-----------------------------------------------------------------------------
(* The layer library as the code calls it *)

\* Input(shape): a tensor whose history is the input layer alone
Input(shape) == [shape |-> shape, history |-> <<[kind |-> "InputLayer", out |-> shape]>>]

\* a layer applied to a tensor: the layer, built on the tensor's shape, joins the history
Apply(layer, t, outShape) ==
    [shape |-> outShape,
     history |-> Append(t.history, layer @@ [in |-> t.shape, out |-> outShape])]

\* faulty variant of HalveUp: padding='valid' arithmetic, d becomes floor(d/2)
HalveDown(d) == d \div 2

\* strides=2, padding='same' convolution: each spatial dimension d becomes ceil(d/2)
HalveUp(d) == (d + 1) \div 2

\* strides=2, padding='same' transposed convolution: each spatial dimension d becomes 2*d
Double(d) == 2 * d

StridedConv2D(t, n_filters, init_weights, reg) ==
    Apply([kind |-> "Conv2D", n_filters |-> n_filters, kernel_size |-> <<3, 3>>,
           strides |-> 2, padding |-> "same",
           kernel_initializer |-> init_weights, kernel_regularizer |-> reg],
          t, <<HalveUp(t.shape[1]), HalveUp(t.shape[2]), n_filters>>)

StridedConv2DTranspose(t, n_filters, init_weights, reg) ==
    Apply([kind |-> "Conv2DTranspose", n_filters |-> n_filters, kernel_size |-> <<3, 3>>,
           strides |-> 2, padding |-> "same",
           kernel_initializer |-> init_weights, kernel_regularizer |-> reg],
          t, <<Double(t.shape[1]), Double(t.shape[2]), n_filters>>)

BatchNormalization(t) == Apply([kind |-> "BatchNormalization"], t, t.shape)

\* Composable.ReLU: the clamp is read from the class attribute
ReLU(t) == Apply([kind |-> "ReLU", max_value |-> cls.relu], t, t.shape)


-----------------------------------------------------------------------------
(* AutoEncoder.encoder and AutoEncoder.decoder *)

\* Python's binding of a call f(x, **kwargs) to the signature
\* f(x, init_weights=None, **metaparameters): a keyword named init_weights is
\* taken by the named parameter, every other keyword lands in metaparameters
BoundInitWeights(kwargs) ==
    IF "init_weights" \in DOMAIN kwargs THEN kwargs["init_weights"] ELSE None

Metaparameters(kwargs) == [k \in DOMAIN kwargs \ {"init_weights"} |-> kwargs[k]]

\* if 'reg' in metaparameters: reg = metaparameters['reg'] else: reg = AutoEncoder.reg
ResolveReg(metaparameters) ==
    IF "reg" \in DOMAIN metaparameters THEN metaparameters["reg"] ELSE cls.reg

\* if 'init_weights' in metaparameters: ... else: init_weights = AutoEncoder.init_weights
\* (the bound parameter init_weights is overwritten on both branches)
ResolveInitWeights(init_weights, metaparameters) ==
    IF "init_weights" \in DOMAIN metaparameters
    THEN metaparameters["init_weights"]
    ELSE cls.init_weights

\* one encoder stage: Conv2D, BatchNormalization, Composable.ReLU
EncoderStage(t, n_filters, init_weights, reg) ==
    ReLU(BatchNormalization(StridedConv2D(t, n_filters, init_weights, reg)))

\* for layer in layers: ...
RECURSIVE EncoderLoop(_, _, _, _)
EncoderLoop(t, layers, init_weights, reg) ==
    IF layers = <<>> THEN t
    ELSE EncoderLoop(EncoderStage(t, Head(layers).n_filters, init_weights, reg),
                     Tail(layers), init_weights, reg)

encoder(t, kwargs) ==
    LET metaparameters == Metaparameters(kwargs)
    IN  EncoderLoop(t, metaparameters["layers"],
                    ResolveInitWeights(BoundInitWeights(kwargs), metaparameters),
                    ResolveReg(metaparameters))

\* one decoder stage: Conv2DTranspose, BatchNormalization, Composable.ReLU
DecoderStage(t, n_filters, init_weights, reg) ==
    ReLU(BatchNormalization(StridedConv2DTranspose(t, n_filters, init_weights, reg)))

\* faulty variant of DecoderRange: range(len(layers)-1, -1, -1), index 0 included
DecoderRangeToZero(n) == [k \in 1..n |-> n - k]

\* faulty variant of DecoderRange: range(1, len(layers)), ascending
DecoderRangeAscending(n) == [k \in 1..(IF n >= 1 THEN n - 1 ELSE 0) |-> k]

\* range(len(layers)-1, 0, -1): the 0-based indices n-1, n-2, ..., 1
DecoderRange(n) == [k \in 1..(IF n >= 1 THEN n - 1 ELSE 0) |-> n - k]

\* for _ in range(len(layers)-1, 0, -1): n_filters = layers[_]['n_filters'] ...
RECURSIVE DecoderLoop(_, _, _, _, _)
DecoderLoop(t, layers, indices, init_weights, reg) ==
    IF indices = <<>> THEN t
    ELSE DecoderLoop(DecoderStage(t, layers[Head(indices) + 1].n_filters, init_weights, reg),
                     layers, Tail(indices), init_weights, reg)

\* channels of the last unpooling, fixed by the code
OutputChannels == 3

decoder(t, kwargs) ==
    LET metaparameters == Metaparameters(kwargs)
        layers == metaparameters["layers"]
        init_weights == ResolveInitWeights(BoundInitWeights(kwargs), metaparameters)
        reg == ResolveReg(metaparameters)
    IN  DecoderStage(DecoderLoop(t, layers, DecoderRange(Len(layers)), init_weights, reg),
                     OutputChannels, init_weights, reg)

-----------------------------------------------------------------------------
(* Models and their weights *)

\* weight arrays the code counts per encoder layer ("6 sets per layer")
WeightsPerLayer == 6

\* faulty variant of LayerWeights: a normalization layer that keeps no moving
\* statistics, so a stage holds 4 arrays and not 6
LayerWeightsNoMovingStats(layer, owner, idx) ==
    LET W(name, shape) == [name |-> name, shape |-> shape, value |-> <<owner, idx, name>>]
    IN  CASE layer.kind = "Conv2D" ->
                <<W("kernel", <<3, 3, layer.in[3], layer.n_filters>>),
                  W("bias", <<layer.n_filters>>)>>
          [] layer.kind = "Conv2DTranspose" ->
                <<W("kernel", <<3, 3, layer.n_filters, layer.in[3]>>),
                  W("bias", <<layer.n_filters>>)>>
          [] layer.kind = "BatchNormalization" ->
                <<W("gamma", <<layer.in[3]>>), W("beta", <<layer.in[3]>>)>>
          [] OTHER -> <<>>

\* the weight arrays of one built layer, in the layer's own order; an array is
\* its shape and its content, and a freshly initialised array's content is
\* known by the model, the layer and the array it was created for
LayerWeights(layer, owner, idx) ==
    LET W(name, shape) == [name |-> name, shape |-> shape, value |-> <<owner, idx, name>>]
    IN  CASE layer.kind = "Conv2D" ->
                <<W("kernel", <<3, 3, layer.in[3], layer.n_filters>>),
                  W("bias", <<layer.n_filters>>)>>
          [] layer.kind = "Conv2DTranspose" ->
                <<W("kernel", <<3, 3, layer.n_filters, layer.in[3]>>),
                  W("bias", <<layer.n_filters>>)>>
          [] layer.kind = "BatchNormalization" ->
                <<W("gamma", <<layer.in[3]>>), W("beta", <<layer.in[3]>>),
                  W("moving_mean", <<layer.in[3]>>), W("moving_variance", <<layer.in[3]>>)>>
          [] OTHER -> <<>>

\* the weights of a model: its layers' weights, layer by layer in construction order
RECURSIVE ModelWeights(_, _, _)
ModelWeights(layers, owner, idx) ==
    IF idx > Len(layers) THEN <<>>
    ELSE LayerWeights(layers[idx], owner, idx) \o ModelWeights(layers, owner, idx + 1)

Uncompiled == [loss |-> None, optimizer |-> None, metrics |-> <<>>]

\* Model(inputs, outputs): the layers from the input to the output tensor
Model(id, inputs, outputs) ==
    [id |-> id, layers |-> outputs.history,
     weights |-> ModelWeights(outputs.history, id, 1), training |-> Uncompiled]

\* self._model = None
NoModel == [id |-> None, layers |-> <<>>, weights |-> <<>>, training |-> Uncompiled]

\* model.get_weights(): the arrays, in order
get_weights(model) == [i \in 1..Len(model.weights) |->
                          [shape |-> model.weights[i].shape, value |-> model.weights[i].value]]

\* the arrays paired with the model's weights, in order, fit them in shape
PairedShapesFit(model, arrays) ==
    \A i \in 1..(IF Len(arrays) < Len(model.weights) THEN Len(arrays) ELSE Len(model.weights)) :
        arrays[i].shape = model.weights[i].shape

\* the model with each weight that has an array taking the array's content
Assigned(model, arrays) ==
    [model EXCEPT !.weights = [i \in 1..Len(model.weights) |->
        IF i <= Len(arrays) THEN [model.weights[i] EXCEPT !.value = arrays[i].value]
        ELSE model.weights[i]]]

\* model.set_weights(arrays), which the code leaves to the layer library: a
\* library that counts first raises ValueError unless there is exactly one
\* array per weight; a library that pairs the arrays with the weights layer
\* by layer assigns the pairs and raises only on a pair of different shapes.
\* Both outcomes are kept; they are the same when the counts are equal.
set_weights(model, arrays) ==
    {IF Len(arrays) = Len(model.weights) /\ PairedShapesFit(model, arrays)
     THEN [status |-> "ok", model |-> Assigned(model, arrays)]
     ELSE [status |-> "ValueError", model |-> NoModel]}
    \cup
    {IF PairedShapesFit(model, arrays)
     THEN [status |-> "ok", model |-> Assigned(model, arrays)]
     ELSE [status |-> "ValueError", model |-> NoModel]}

\* the Python slice s[0 : n]
Slice(s, n) == SubSeq(s, 1, IF n < Len(s) THEN n ELSE Len(s))

-----------------------------------------------------------------------------
(* Instances *)

\* no object yet
NoObject == [exists |-> FALSE]

\* attribute lookup: the instance's own value, else the class attribute
GetAttr(self, name) == IF self[name] # Unset THEN self[name] ELSE cls[name]

\* faulty variant of ComposableInit: the overrides are written to the class
\* (Composable.init_weights = init_weights) and not to the instance
ComposableInitOnClass(c, init_weights, reg, relu) ==
    [self |-> [exists |-> TRUE, init_weights |-> Unset, reg |-> Unset, relu |-> Unset,
               _model |-> NoModel],
     cls |-> [c EXCEPT !.init_weights = IF init_weights # None THEN init_weights ELSE @,
                       !.reg = IF reg # None THEN reg ELSE @,
                       !.relu = IF relu # None THEN relu ELSE @]]

\* Composable.__init__: the instance and the class attributes after the call
ComposableInit(c, init_weights, reg, relu) ==
    [self |-> [exists |-> TRUE,
               init_weights |-> IF init_weights # None THEN init_weights ELSE Unset,
               reg |-> IF reg # None THEN reg ELSE Unset,
               relu |-> IF relu # None THEN relu ELSE Unset,
               _model |-> NoModel],
     cls |-> c]

\* an optional layers argument
NoLayers == [given |-> FALSE, value |-> <<>>]
SomeLayers(l) == [given |-> TRUE, value |-> l]

\* AutoEncoder.__init__: the instance and the class attributes after the call
AutoEncoderInit(c, layersArg, input_shape, init_weights, reg) ==
    LET super == ComposableInit(c, init_weights, reg, None)
        layers == IF ~layersArg.given THEN super.cls.layers ELSE layersArg.value
        inputs == Input(input_shape)
        enc == encoder(inputs, [layers |-> layers])
        outputs == decoder(enc, [layers |-> layers])
    IN  [self |-> [exists |-> TRUE,
                   init_weights |-> super.self.init_weights,
                   reg |-> super.self.reg,
                   relu |-> super.self.relu,
                   layers |-> layers,
                   input_shape |-> input_shape,
                   _model |-> Model("autoencoder", inputs, outputs)],
         cls |-> super.cls]

\* faulty variant of compile: a model that is already compiled keeps its
\* first training configuration
compileOnce(self, optimizer) ==
    IF self._model.training # Uncompiled THEN self
    ELSE [self EXCEPT !._model.training =
            [loss |-> "mse", optimizer |-> optimizer, metrics |-> <<"accuracy">>]]

\* AutoEncoder.compile: self._model.compile(loss='mse', optimizer=optimizer, metrics=['accuracy'])
compile(self, optimizer) ==
    [self EXCEPT !._model.training =
        [loss |-> "mse", optimizer |-> optimizer, metrics |-> <<"accuracy">>]]

\* faulty variant of extract: the encoder replaces the instance's own model
extractInPlace(self) ==
    LET weights == get_weights(self._model)
        encoder_weights == Slice(weights, WeightsPerLayer * Len(self.layers))
        inputs == Input(self.input_shape)
        outputs == encoder(inputs, [layers |-> self.layers])
        enc == Model("autoencoder", inputs, outputs)
    IN  {[self |-> IF set.status = "ok" THEN [self EXCEPT !._model = set.model] ELSE self,
          status |-> set.status, model |-> set.model] :
            set \in set_weights(enc, encoder_weights)}

\* AutoEncoder.extract: for each outcome of set_weights, the instance after
\* the call and what the call gives, the encoder model or the error raised
extract(self) ==
    LET weights == get_weights(self._model)
        encoder_weights == Slice(weights, WeightsPerLayer * Len(self.layers))
        inputs == Input(self.input_shape)
        outputs == encoder(inputs, [layers |-> self.layers])
        enc == Model("encoder", inputs, outputs)
    IN  {[self |-> self, status |-> set.status, model |-> set.model] :
            set \in set_weights(enc, encoder_weights)}

\* the phase of the AutoEncoder
Phase(self) ==
    IF ~self.exists THEN "Unbuilt"
    ELSE IF self._model.training = Uncompiled THEN "Built" ELSE "Compiled"

-----------------------------------------------------------------------------
(* The static layer helpers of Composable *)

\* if 'reg' in hyperparameters: reg = hyperparameters['reg'] else: reg = Composable.reg
HyperReg(hyperparameters) ==
    IF "reg" \in DOMAIN hyperparameters THEN hyperparameters["reg"] ELSE cls.reg

\* if 'init_weights' in hyperparameters: ... else: init_weights = Composable.init_weights
HyperInitWeights(hyperparameters) ==
    IF "init_weights" \in DOMAIN hyperparameters
    THEN hyperparameters["init_weights"]
    ELSE cls.init_weights

\* Composable.Conv2D with its defaults strides=(1, 1), padding='valid'
HelperConv2D(t, n_filters, kernel_size, hyperparameters) ==
    Apply([kind |-> "Conv2D", n_filters |-> n_filters, kernel_size |-> kernel_size,
           strides |-> 1, padding |-> "valid",
           kernel_initializer |-> HyperInitWeights(hyperparameters),
           kernel_regularizer |-> HyperReg(hyperparameters)],
          t, <<t.shape[1] - kernel_size[1] + 1, t.shape[2] - kernel_size[2] + 1, n_filters>>)

\* Composable.Conv2DTranspose with its defaults strides=(1, 1), padding='valid'
HelperConv2DTranspose(t, n_filters, kernel_size, hyperparameters) ==
    Apply([kind |-> "Conv2DTranspose", n_filters |-> n_filters, kernel_size |-> kernel_size,
           strides |-> 1, padding |-> "valid",
           kernel_initializer |-> HyperInitWeights(hyperparameters),
           kernel_regularizer |-> HyperReg(hyperparameters)],
          t, <<t.shape[1] + kernel_size[1] - 1, t.shape[2] + kernel_size[2] - 1, n_filters>>)

\* Composable.Dense
HelperDense(t, units, hyperparameters) ==
    Apply([kind |-> "Dense", units |-> units,
           kernel_initializer |-> HyperInitWeights(hyperparameters),
           kernel_regularizer |-> HyperReg(hyperparameters)],
          t, <<t.shape[1], t.shape[2], units>>)

-----------------------------------------------------------------------------
(* Inputs *)

\* layers arguments of the constructor: absent, or an explicit list
LayersArgs == {NoLayers} \cup {SomeLayers(l) : l \in LayerLists}

\* layers arguments where the layers are not what is looked at
ConfigLayersArgs == {NoLayers, SomeLayers(<<LayerSpec(8), LayerSpec(3)>>)}

\* input shapes given to the constructor
InputShapes == {DefaultInputShape, <<4, 4, 1>>}

\* init_weights / reg given to AutoEncoder.__init__ (the first is the signature's default)
CtorInits == {HE_NORMAL, InstInit}
CtorRegs == {None, InstReg}

\* keyword overrides of a helper call: each of reg and init_weights absent or given
Overrides ==
    {r @@ i : r \in {<<>>, [reg |-> CallReg]}, i \in {<<>>, [init_weights |-> CallInit]}}

\* spatial sizes and channel counts of the stand-alone calls' input
Dims == {3, 4, 6, 32}
Chans == {1, 3}

\* keyword arguments of a stand-alone encoder/decoder call
KwArgs == {[layers |-> l] @@ o : l \in LayerLists \cup {DefaultLayers}, o \in Overrides}

NoTensor == [shape |-> <<>>, history |-> <<>>]
Idle == [op |-> "none", args |-> <<>>, result |-> NoTensor]
NotExtracted == [status |-> "none", model |-> NoModel]

-----------------------------------------------------------------------------
(* The life of an AutoEncoder, a Composable and the helper calls *)

Init ==
    /\ cls = ClassDefaults
    /\ ae = NoObject
    /\ base = NoObject
    /\ extracted = NotExtracted
    /\ last = Idle
    /\ pc = "off"
    /\ kw = <<>>
    /\ x = NoTensor

\* autoencoder = AutoEncoder(layers, input_shape, init_weights, reg), the
\* layers and input_shape arguments drawn from the given sets
Construct(layersArgs, inputShapes) ==
    /\ ~ae.exists
    /\ \E l \in layersArgs, s \in inputShapes, i \in CtorInits, r \in CtorRegs :
          LET made == AutoEncoderInit(cls, l, s, i, r)
          IN  /\ ae' = made.self
              /\ cls' = made.cls
              /\ last' = [op |-> "AutoEncoder", args |-> <<l, s, i, r>>, result |-> NoTensor]
    /\ UNCHANGED <<base, extracted, pc, kw, x>>

\* autoencoder.compile(optimizer)
Compile ==
    /\ ae.exists
    /\ \E o \in Optimizers :
          /\ ae' = compile(ae, o)
          /\ last' = [op |-> "compile", args |-> <<o>>, result |-> NoTensor]
    /\ UNCHANGED <<cls, base, extracted, pc, kw, x>>

\* e = autoencoder.extract()
Extract ==
    /\ ae.exists
    /\ \E got \in extract(ae) :
          /\ ae' = got.self
          /\ extracted' = [status |-> got.status, model |-> got.model]
    /\ last' = [op |-> "extract", args |-> <<>>, result |-> NoTensor]
    /\ UNCHANGED <<cls, base, pc, kw, x>>

\* Composable(init_weights, reg, relu)
NewComposable ==
    /\ ~base.exists
    /\ \E i \in {None, InstInit}, r \in {None, InstReg}, m \in {None, InstRelu} :
          LET made == ComposableInit(cls, i, r, m)
          IN  /\ base' = made.self
              /\ cls' = made.cls
              /\ last' = [op |-> "Composable", args |-> <<i, r, m>>, result |-> NoTensor]
    /\ UNCHANGED <<ae, extracted, pc, kw, x>>

\* Composable.Conv2D(x, n_filters, (3, 3), **hyperparameters)
CallConv2D ==
    /\ \E n \in Filters, h \in Overrides :
          last' = [op |-> "Conv2D", args |-> <<h>>,
                   result |-> HelperConv2D(Input(DefaultInputShape), n, <<3, 3>>, h)]
    /\ UNCHANGED <<cls, ae, base, extracted, pc, kw, x>>

\* Composable.Conv2DTranspose(x, n_filters, (3, 3), **hyperparameters)
CallConv2DTranspose ==
    /\ \E n \in Filters, h \in Overrides :
          last' = [op |-> "Conv2DTranspose", args |-> <<h>>,
                   result |-> HelperConv2DTranspose(Input(DefaultInputShape), n, <<3, 3>>, h)]
    /\ UNCHANGED <<cls, ae, base, extracted, pc, kw, x>>

\* Composable.Dense(x, units, **hyperparameters)
CallDense ==
    /\ \E n \in Filters, h \in Overrides :
          last' = [op |-> "Dense", args |-> <<h>>,
                   result |-> HelperDense(Input(DefaultInputShape), n, h)]
    /\ UNCHANGED <<cls, ae, base, extracted, pc, kw, x>>

\* Composable.ReLU(x)
CallReLU ==
    /\ last' = [op |-> "ReLU", args |-> <<>>, result |-> ReLU(Input(DefaultInputShape))]
    /\ UNCHANGED <<cls, ae, base, extracted, pc, kw, x>>

\* the life of one AutoEncoder: built, compiled, its encoder extracted
Next ==
    \/ Construct(LayersArgs, InputShapes)
    \/ Compile
    \/ Extract

Spec == Init /\ [][Next]_vars

\* an AutoEncoder and a Composable side by side with the helper calls: every
\* operation that reads the configuration
NextConfig ==
    \/ Construct(ConfigLayersArgs, {DefaultInputShape})
    \/ Compile
    \/ Extract
    \/ NewComposable
    \/ CallConv2D
    \/ CallConv2DTranspose
    \/ CallDense
    \/ CallReLU

SpecConfig == Init /\ [][NextConfig]_vars

-----------------------------------------------------------------------------
(* The instance's layers attribute reassigned between construction and extract *)

\* autoencoder.layers = l
SetLayers ==
    /\ ae.exists
    /\ \E l \in LayerLists \cup {cls.layers} :
          /\ ae' = [ae EXCEPT !.layers = l]
          /\ last' = [op |-> "layers=", args |-> <<l>>, result |-> NoTensor]
    /\ UNCHANGED <<cls, base, extracted, pc, kw, x>>

NextMut ==
    \/ Construct(LayersArgs, InputShapes)
    \/ SetLayers
    \/ Extract

SpecMut == Init /\ [][NextMut]_vars

-----------------------------------------------------------------------------
(* encoder and decoder called on their own, as pure builders *)

InitPure ==
    /\ cls = ClassDefaults
    /\ ae = NoObject
    /\ base = NoObject
    /\ extracted = NotExtracted
    /\ last = Idle
    /\ pc = "start"
    /\ kw \in KwArgs
    /\ x \in {Input(<<h, w, c>>) : h \in Dims, w \in Dims, c \in Chans}

\* x = AutoEncoder.encoder(x, **kw)
CallEncoder ==
    /\ pc = "start"
    /\ x' = encoder(x, kw)
    /\ pc' = "encoded"
    /\ UNCHANGED <<cls, ae, base, extracted, last, kw>>

\* x = AutoEncoder.decoder(x, **kw)
CallDecoder ==
    /\ pc = "encoded"
    /\ x' = decoder(x, kw)
    /\ pc' = "decoded"
    /\ UNCHANGED <<cls, ae, base, extracted, last, kw>>

NextPure ==
    \/ CallEncoder
    \/ CallDecoder

SpecPure == InitPure /\ [][NextPure]_vars

-----------------------------------------------------------------------------
(* Reading a layer history *)

IsConv(layer) == layer.kind \in {"Conv2D", "Conv2DTranspose"}

\* the layers of the given kind, in order
OfKind(history, kind) == SelectSeq(history, LAMBDA l : l.kind = kind)

\* the filter counts of a sequence of convolutions
FilterCounts(convs) == [i \in 1..Len(convs) |-> convs[i].n_filters]

\* the filter counts of a layers list
SpecCounts(layers) == [i \in 1..Len(layers) |-> layers[i].n_filters]

\* stage k (1-based) of a history is the three layers after the input layer and k-1 stages
StageIs(history, k, conv) ==
    /\ history[3 * k - 1].kind = conv
    /\ history[3 * k].kind = "BatchNormalization"
    /\ history[3 * k + 1].kind = "ReLU"

\* ceil(a / b)
CeilDiv(a, b) == (a + b - 1) \div b

-----------------------------------------------------------------------------
(* C1 *)

\* the value the stated precedence gives: call-site, else instance, else class
Precedence(call, inst, class) ==
    IF call # Unset THEN call ELSE IF inst # Unset THEN inst ELSE class

\* C1: reg and init_weights reach every convolution with the precedence
\* call-site > instance > class default: the layers an AutoEncoder builds for
\* itself (no call-site value) carry the instance's value when the instance
\* set one and the class default otherwise.
C1_InstanceOverClass ==
    ae.exists =>
        \A i \in 1..Len(ae._model.layers) :
            IsConv(ae._model.layers[i]) =>
                /\ ae._model.layers[i].kernel_initializer
                       = Precedence(Unset, ae.init_weights, ClassDefaults.init_weights)
                /\ ae._model.layers[i].kernel_regularizer
                       = Precedence(Unset, ae.reg, ClassDefaults.reg)

-----------------------------------------------------------------------------
(* C2 *)

\* C2: an AutoEncoder is built only from a non-empty layers list of positive
\* filter counts; with an empty list no instance comes to exist.
C2_OnlyValidLayersBuild ==
    ae.exists =>
        /\ Len(ae.layers) >= 1
        /\ \A i \in 1..Len(ae.layers) : ae.layers[i].n_filters > 0

-----------------------------------------------------------------------------
(* C3 *)

\* C3: for N >= 1 layer specs the encoder appends exactly N stages (Conv2D,
\* BatchNormalization, ReLU) and the decoder exactly N stages
\* (Conv2DTranspose, BatchNormalization, ReLU), the last of them the fixed
\* finishing stage; for N = 1 the decoder is the finishing stage alone.
C3_StageCounts ==
    LET N == Len(kw["layers"])
    IN  N >= 1 =>
          /\ pc = "encoded" =>
                /\ Len(x.history) = 1 + 3 * N
                /\ \A k \in 1..N : StageIs(x.history, k, "Conv2D")
          /\ pc = "decoded" =>
                /\ Len(x.history) = 1 + 3 * N + 3 * N
                /\ \A k \in 1..N : StageIs(x.history, k, "Conv2D")
                /\ \A k \in (N + 1)..(2 * N) : StageIs(x.history, k, "Conv2DTranspose")
                /\ x.history[3 * (2 * N) - 1].n_filters = OutputChannels

C3_Witness ==
    /\ pc = "decoded"
    /\ Len(kw["layers"]) = 1
    /\ Len(OfKind(x.history, "Conv2DTranspose")) = 1

-----------------------------------------------------------------------------
(* C4 *)

\* C4 as stated: the decoder output has spatial size H x W whenever N evenly
\* divides H and W.
C4_Original ==
    LET N == Len(kw["layers"])
        H == x.history[1].out[1]
        W == x.history[1].out[2]
    IN  (pc = "decoded" /\ N >= 1 /\ H % N = 0 /\ W % N = 0) =>
            (x.shape[1] = H /\ x.shape[2] = W)

\* C4 amended: for N >= 1 the encoder output has spatial size
\* ceil(H/2^N) x ceil(W/2^N), which is H/2^N x W/2^N when 2^N divides H and
\* W, and the decoder output has spatial size exactly H x W whenever 2^N
\* evenly divides H and W.
C4_Shapes ==
    LET N == Len(kw["layers"])
        H == x.history[1].out[1]
        W == x.history[1].out[2]
    IN  N >= 1 =>
          /\ pc = "encoded" =>
                /\ x.shape[1] = CeilDiv(H, Pow2(N))
                /\ x.shape[2] = CeilDiv(W, Pow2(N))
                /\ H % Pow2(N) = 0 => x.shape[1] * Pow2(N) = H
                /\ W % Pow2(N) = 0 => x.shape[2] * Pow2(N) = W
          /\ (pc = "decoded" /\ H % Pow2(N) = 0 /\ W % Pow2(N) = 0) =>
                (x.shape[1] = H /\ x.shape[2] = W)

C4_Witness ==
    /\ pc = "decoded"
    /\ Len(kw["layers"]) = 3
    /\ x.history[1].out = <<32, 32, 3>>
    /\ x.history[10].out[1] = 4
    /\ x.history[10].out[2] = 4
    /\ x.shape[1] = 32
    /\ x.shape[2] = 32

-----------------------------------------------------------------------------
(* C9 *)

-----------------------------------------------------------------------------
(* C5 *)

\* the names of the six weight arrays of a stage, in order
StageArrays == <<"kernel", "bias", "gamma", "beta", "moving_mean", "moving_variance">>

\* the encoder-only model built from the instance's layers and input_shape
EncoderOnly(self) ==
    Model("encoder", Input(self.input_shape),
          encoder(Input(self.input_shape), [layers |-> self.layers]))

\* C5: for N >= 1 the full model's weight list starts with 6*N entries of
\* the encoder stages, 6 per stage (kernel, bias, 4 batch-normalization
\* arrays), in the order and with the shapes of the encoder-only graph's
\* weights; the list extract() loads has length 6*N, is that prefix entry for
\* entry, and holds no entry of a decoder layer.
C5_EncoderPrefix ==
    (ae.exists /\ Len(ae.layers) >= 1) =>
        LET N == Len(ae.layers)
            w == ae._model.weights
            e == EncoderOnly(ae).weights
        IN  /\ Len(w) >= WeightsPerLayer * N
            /\ Len(e) = WeightsPerLayer * N
            /\ \A i \in 1..(WeightsPerLayer * N) :
                  LET stage == ((i - 1) \div WeightsPerLayer) + 1
                      layer == w[i].value[2]
                  IN  /\ w[i].name = StageArrays[((i - 1) % WeightsPerLayer) + 1]
                      /\ layer \in {3 * stage - 1, 3 * stage}
                      /\ ae._model.layers[layer].kind \in {"Conv2D", "BatchNormalization"}
                      /\ w[i].name = e[i].name
                      /\ w[i].shape = e[i].shape
            /\ \A i \in (WeightsPerLayer * N + 1)..Len(w) : w[i].value[2] > 1 + 3 * N
            /\ extracted.status = "ok" =>
                  /\ Len(extracted.model.weights) = WeightsPerLayer * N
                  /\ \A i \in 1..(WeightsPerLayer * N) :
                        /\ extracted.model.weights[i].value = w[i].value
                        /\ extracted.model.weights[i].shape = e[i].shape
                        /\ extracted.model.weights[i].name = e[i].name

C5_Witness ==
    /\ ae.exists
    /\ Len(ae.layers) = 3
    /\ extracted.status = "ok"
    /\ Len(extracted.model.weights) = 18
    /\ Len(ae._model.weights) = 36

-----------------------------------------------------------------------------
(* C6 *)

\* C6: extract() returns a new model, not the instance's own, and leaves the
\* instance as it was: its model (layers, weights, training configuration),
\* its layers list and its input_shape; extract() called again right after
\* returns an encoder with the same weights.
C6_ExtractFrame ==
    [][last'.op = "extract" =>
          /\ ae' = ae
          /\ extracted'.status = "ok"
          /\ extracted'.model.id # ae'._model.id
          /\ extracted'.model # ae'._model
          /\ last.op = "extract" => extracted'.model.weights = extracted.model.weights]_vars

C6_Witness ==
    /\ last.op = "extract"
    /\ extracted.status = "ok"
    /\ Phase(ae) = "Compiled"
    /\ Len(ae.layers) = 2
    /\ extracted.model.layers # ae._model.layers

-----------------------------------------------------------------------------
(* C7 *)

\* C7: extract() fails whenever the number of arrays it sliced from the full
\* model, min(6 * len(self.layers), number of weights), is not the number the
\* encoder-only graph expects, as after the instance's layers list was
\* replaced by a longer one; then no encoder is returned.  (extract leaves
\* the instance as it is, so the counts are those the call saw.)
C7_CountMismatchFails ==
    (/\ last.op = "extract"
     /\ Len(Slice(get_weights(ae._model), WeightsPerLayer * Len(ae.layers)))
           # Len(EncoderOnly(ae).weights)) =>
        /\ extracted.status = "ValueError"
        /\ extracted.model = NoModel

-----------------------------------------------------------------------------
(* C8 *)

\* the phases in order
PhaseRank(p) == CASE p = "Unbuilt" -> 0 [] p = "Built" -> 1 [] p = "Compiled" -> 2

\* C8: the phases are passed in the order Unbuilt, Built, Compiled: the
\* constructor gives Built, compile(optimizer) gives Compiled with loss mse,
\* the given optimizer and metric accuracy, and changes neither the layers
\* nor the weights; after compile the model carries the configuration of the
\* most recent call, and compiling again with the same optimizer changes
\* nothing.
C8_Phases ==
    [][/\ PhaseRank(Phase(ae')) >= PhaseRank(Phase(ae))
       /\ last'.op = "AutoEncoder" => Phase(ae') = "Built"
       /\ (Phase(ae) = "Unbuilt" /\ Phase(ae') # "Unbuilt") => Phase(ae') = "Built"
       /\ last'.op = "compile" =>
             /\ Phase(ae) \in {"Built", "Compiled"}
             /\ Phase(ae') = "Compiled"
             /\ ae'._model.training =
                   [loss |-> "mse", optimizer |-> last'.args[1], metrics |-> <<"accuracy">>]
             /\ ae'._model.layers = ae._model.layers
             /\ ae'._model.weights = ae._model.weights
             /\ (last.op = "compile" /\ last.args = last'.args) => ae' = ae]_vars

C8_Witness ==
    /\ last.op = "compile"
    /\ Phase(ae) = "Compiled"
    /\ ae._model.training.optimizer = "sgd"
    /\ extracted.status = "ok"

-----------------------------------------------------------------------------
(* C10 *)

\* C10: no operation changes a class-level default (Composable.init_weights,
\* Composable.reg, Composable.relu, AutoEncoder.layers), and an override
\* given to one instance is not seen through another: an instance that set
\* no value of its own reads the initial class default.
C10_ClassDefaultsKept ==
    /\ cls = ClassDefaults
    /\ \A f \in {"init_weights", "reg", "relu"} :
          /\ (ae.exists /\ ae[f] = Unset) => GetAttr(ae, f) = ClassDefaults[f]
          /\ (base.exists /\ base[f] = Unset) => GetAttr(base, f) = ClassDefaults[f]

C10_Witness ==
    /\ ae.exists
    /\ ae.init_weights = InstInit
    /\ ae.reg = InstReg
    /\ base.exists
    /\ base.init_weights = Unset
    /\ base.reg = Unset
    /\ base.relu = InstRelu
    /\ extracted.status = "ok"
    /\ Phase(ae) = "Compiled"
    /\ last.op = "Conv2D"
    /\ DOMAIN last.args[1] = {"reg", "init_weights"}

=============================================================================
